---- MODULE Spec2Model ----
(***************************************************************************)
(* Model of src/main.py: the label-driven container backup run.            *)
(*                                                                         *)
(* Python strings are sequences of one-character strings, bytes objects    *)
(* are sequences of integers 0..255, a dict is a set of <<key, value>>     *)
(* pairs with unique keys.  The file system is a function from path to     *)
(* file content.  The container runtime (docker) is the environment: the   *)
(* results of its calls are inputs chosen in the actions.                  *)
(***************************************************************************)
EXTENDS Integers, Sequences, FiniteSets, TLC

VARIABLES pc, backup_dir, backupExists, running, containers, conn, i,
          files, trace, calls, logs, execs

vars == <<pc, backup_dir, backupExists, running, containers, conn, i,
          files, trace, calls, logs, execs>>

(***************************************************************************)
(* Bounds of the model.                                                    *)
(***************************************************************************)
MaxContainers == 2

StartClock == 86399

(***************************************************************************)
(* String literals of the program.                                         *)
(***************************************************************************)
S_true == <<"t","r","u","e">>

S_mysql == <<"m","y","s","q","l">>

S_django == <<"d","j","a","n","g","o">>

S_root == <<"r","o","o","t">>

DIR_ABS == <<"/","b","a","c","k","u","p">>

DIR_REL == <<".","/","b","a","c","k","u","p">>

MYSQL_USER == <<"M","Y","S","Q","L","_","U","S","E","R">>

MYSQL_PASSWORD == <<"M","Y","S","Q","L","_","P","A","S","S","W","O","R","D">>

MYSQL_DATABASE == <<"M","Y","S","Q","L","_","D","A","T","A","B","A","S","E">>

MYSQL_PWD == <<"M","Y","S","Q","L","_","P","W","D">>

MYSQLDUMP_U == <<"m","y","s","q","l","d","u","m","p"," ","-","u"," ">>

DATABASES == <<" ","-","-","d","a","t","a","b","a","s","e","s"," ">>

DJANGO_CMD == <<"p","y","t","h","o","n","3"," ","m","a","n","a","g","e",".","p","y"," ","d","u","m","p","d","a","t","a"," ","-","e"," ","c","o","n","t","e","n","t","t","y","p","e","s"," ","-","e"," ","a","u","t","h",".","p","e","r","m","i","s","s","i","o","n"," ","-","-","n","a","t","u","r","a","l","-","f","o","r","e","i","g","n"," ","-","-","n","a","t","u","r","a","l","-","p","r","i","m","a","r","y">>

MysqlPrefix == <<"m","y","s","q","l","_","b","a","c","k","u","p","_">>

DjangoPrefix == <<"d","j","a","n","g","o","_","b","a","c","k","u","p","_">>

VolumePrefix == <<"v","o","l","u","m","e","_","b","a","c","k","u","p","_">>

SqlGz == <<".","s","q","l",".","g","z">>

JsonGz == <<".","j","s","o","n",".","g","z">>

TarGz == <<".","t","a","r",".","g","z">>

(***************************************************************************)
(* Character classes and the string methods the program uses.  A character *)
(* is a code point below 256; the tables are those of Python for that      *)
(* range.                                                                  *)
(***************************************************************************)
UpperChars == <<"A","B","C","D","E","F","G","H","I","J","K","L","M","N","O","P","Q","R","S","T","U","V","W","X","Y","Z">>

LowerChars == <<"a","b","c","d","e","f","g","h","i","j","k","l","m","n","o","p","q","r","s","t","u","v","w","x","y","z">>

DigitChars == <<"0","1","2","3","4","5","6","7","8","9">>

\* the characters from U+0080 to U+00FF for which str.isalnum() is True
Latin1Alnum == <<"ª","²","³","µ","¹","º","¼","½","¾","À","Á","Â","Ã","Ä","Å","Æ","Ç","È","É","Ê","Ë","Ì","Í","Î","Ï","Ð","Ñ","Ò","Ó","Ô","Õ","Ö","Ø","Ù","Ú","Û","Ü","Ý","Þ","ß","à","á","â","ã","ä","å","æ","ç","è","é","ê","ë","ì","í","î","ï","ð","ñ","ò","ó","ô","õ","ö","ø","ù","ú","û","ü","ý","þ","ÿ">>

\* the characters from U+0080 to U+00FF that str.lower() changes, and their
\* images
Latin1Upper == <<"À","Á","Â","Ã","Ä","Å","Æ","Ç","È","É","Ê","Ë","Ì","Í","Î","Ï","Ð","Ñ","Ò","Ó","Ô","Õ","Ö","Ø","Ù","Ú","Û","Ü","Ý","Þ">>

Latin1Lower == <<"à","á","â","ã","ä","å","æ","ç","è","é","ê","ë","ì","í","î","ï","ð","ñ","ò","ó","ô","õ","ö","ø","ù","ú","û","ü","ý","þ">>

\* the characters below U+0100 for which str.isspace() is True
SpaceChars == <<"\t","\n","","\f","\r","","","",""," ",""," ">>

Range(s) == {s[k] : k \in DOMAIN s}

\* str.isalnum() on one character
AlnumChars ==
    Range(UpperChars) \cup Range(LowerChars) \cup Range(DigitChars) \cup Range(Latin1Alnum)

IsAlnum(c) == c \in AlnumChars

\* str.isspace() on one character
IsSpace(c) == \E k \in DOMAIN SpaceChars : SpaceChars[k] = c

\* str.lower() on one character
CasedUpper == UpperChars \o Latin1Upper

CasedLower == LowerChars \o Latin1Lower

LowerChar(c) ==
    IF \E k \in DOMAIN CasedUpper : CasedUpper[k] = c
    THEN CasedLower[CHOOSE k \in DOMAIN CasedUpper : CasedUpper[k] = c]
    ELSE c

\* str.lower()
Lower(s) == [k \in DOMAIN s |-> LowerChar(s[k])]

\* str.rstrip()
RECURSIVE RStrip(_)
RStrip(s) ==
    IF s = <<>> THEN <<>>
    ELSE IF IsSpace(s[Len(s)]) THEN RStrip(SubSeq(s, 1, Len(s) - 1))
    ELSE s

\* the generator expression of safe_filename: keep alphanumerics, '_' and '-'
RECURSIVE KeepSafe(_)
KeepSafe(s) ==
    IF s = <<>> THEN <<>>
    ELSE IF IsAlnum(Head(s)) \/ Head(s) \in {"_", "-"}
         THEN <<Head(s)>> \o KeepSafe(Tail(s))
         ELSE KeepSafe(Tail(s))

safe_filename(name) == RStrip(KeepSafe(name))

\* dict.get(key, default)
Has(d, k) == \E p \in d : p[1] = k

Get(d, k, default) == IF Has(d, k) THEN (CHOOSE p \in d : p[1] = k)[2] ELSE default

\* d[k] = v
Put(d, k, v) == {p \in d : p[1] # k} \cup {<<k, v>>}

\* item.split('=', 1): the parts, one part when there is no '='
RECURSIVE FindEq(_, _)
FindEq(s, k) ==
    IF k > Len(s) THEN 0
    ELSE IF s[k] = "=" THEN k
    ELSE FindEq(s, k + 1)

Split1(s) ==
    LET k == FindEq(s, 1)
    IN  IF k = 0 THEN <<s>>
        ELSE <<SubSeq(s, 1, k - 1), SubSeq(s, k + 1, Len(s))>>

\* dict(item.split('=', 1) for item in container_env): ValueError when an
\* item yields one part, later items override earlier ones
RECURSIVE EnvDict(_, _)
EnvDict(env, acc) ==
    IF env = <<>> THEN [ok |-> TRUE, dict |-> acc]
    ELSE LET parts == Split1(Head(env))
         IN  IF Len(parts) # 2 THEN [ok |-> FALSE, dict |-> {}]
             ELSE EnvDict(Tail(env), Put(acc, parts[1], parts[2]))

\* bytes.decode(): strict UTF-8, TRUE when the bytes decode
IsCont(b) == b >= 128 /\ b <= 191

RECURSIVE Utf8Valid(_)
Utf8Valid(b) ==
    IF b = <<>> THEN TRUE
    ELSE LET h == Head(b)
         IN  IF h < 128 THEN Utf8Valid(Tail(b))
             ELSE IF h >= 194 /\ h <= 223
             THEN Len(b) >= 2 /\ IsCont(b[2]) /\ Utf8Valid(SubSeq(b, 3, Len(b)))
             ELSE IF h >= 224 /\ h <= 239
             THEN /\ Len(b) >= 3 /\ IsCont(b[2]) /\ IsCont(b[3])
                  /\ (h = 224 => b[2] >= 160)
                  /\ (h = 237 => b[2] <= 159)
                  /\ Utf8Valid(SubSeq(b, 4, Len(b)))
             ELSE IF h >= 240 /\ h <= 244
             THEN /\ Len(b) >= 4 /\ IsCont(b[2]) /\ IsCont(b[3]) /\ IsCont(b[4])
                  /\ (h = 240 => b[2] >= 144)
                  /\ (h = 244 => b[2] <= 143)
                  /\ Utf8Valid(SubSeq(b, 5, Len(b)))
             ELSE FALSE

\* datetime.strftime('%Y%m%d_%H%M%S') of the clock value t, counted in
\* seconds from 2024-01-01 00:00:00 and kept inside January 2024
Fmt2(n) == <<DigitChars[(n \div 10) + 1], DigitChars[(n % 10) + 1]>>

Strftime(t) ==
    <<"2","0","2","4","0","1">> \o Fmt2(1 + (t \div 86400)) \o <<"_">>
        \o Fmt2((t % 86400) \div 3600) \o Fmt2((t % 3600) \div 60) \o Fmt2(t % 60)

\* os.path.join(backup_dir, filename) for a relative filename
PathJoin(dir, fname) == dir \o <<"/">> \o fname

\* the three f-strings that name the artifact
MysqlFile(dir, name, t) ==
    PathJoin(dir, MysqlPrefix \o safe_filename(name) \o <<"_">> \o Strftime(t) \o SqlGz)

DjangoFile(dir, name, t) ==
    PathJoin(dir, DjangoPrefix \o safe_filename(name) \o <<"_">> \o Strftime(t) \o JsonGz)

VolumeFile(dir, name, vol, t) ==
    PathJoin(dir, VolumePrefix \o safe_filename(name) \o <<"_">> \o safe_filename(vol)
                  \o <<"_">> \o Strftime(t) \o TarGz)

\* the content of a file written through gzip.open(path, 'wb') and closed:
\* a gzip stream of the data
Gzip(data) == [gzip |-> data, intact |-> TRUE]

\* the content of a file whose write() raised: the gzip stream is cut off,
\* data is what the writes that returned had passed
Partial(data) == [gzip |-> data, intact |-> FALSE]

\* open(path, 'wb') then write: the file is created or truncated
WriteFile(fs, path, content) ==
    [p \in (DOMAIN fs) \cup {path} |-> IF p = path THEN content ELSE fs[p]]

\* b"".join(chunks)
RECURSIVE Concat(_)
Concat(chunks) == IF chunks = <<>> THEN <<>> ELSE Head(chunks) \o Concat(Tail(chunks))

(***************************************************************************)
(* Inputs: the containers the runtime reports and the results of its calls.*)
(***************************************************************************)
\* container names, one per position of the list (names are unique on a host)
NamePool == << <<"a",".","b">>, <<"a","b">>, <<"d","b","-","1">>, <<"w","e","b","_","2">> >>

V_data == <<"/","d","é">>

Labels(optin, type, volume) ==
    {<<"DCBAK", v>> : v \in optin} \cup {<<"DCBAK-TYPE", v>> : v \in type}
        \cup {<<"DCBAK-VOLUME", v>> : v \in volume}

\* label sets of the containers; {} stands for an absent label
Fleet ==
    { Labels({}, {S_mysql}, {V_data}),
      Labels({<<"f","a","l","s","e">>}, {S_django}, {V_data}),
      Labels({<<"T","r","U","e">>}, {S_django}, {V_data}),
      Labels({<<"T","R","U","E">>}, {S_mysql}, {}),
      Labels({S_true}, {<<"M","y","S","Q","L">>}, {<<>>}),
      Labels({S_true}, {}, {V_data}) }

ContainerLists ==
    UNION { { [k \in 1..n |-> [name |-> NamePool[k], labels |-> f[k]]] : f \in [1..n -> Fleet] }
            : n \in 0..MaxContainers }

\* container.attrs['Config']['Env']
Envs ==
    { << <<"M","Y","S","Q","L","_","U","S","E","R","=","u">>,
         <<"M","Y","S","Q","L","_","P","A","S","S","W","O","R","D","=","p","=","q">>,
         <<"M","Y","S","Q","L","_","D","A","T","A","B","A","S","E","=","d">> >>,
      << <<"P","A","T","H">> >> }

\* container.exec_run: raises, or returns (exit_code, output)
ExecResults ==
    { [raised |-> TRUE,  exit_code |-> 0, output |-> <<>>],
      [raised |-> FALSE, exit_code |-> 0, output |-> <<45, 45>>],
      [raised |-> FALSE, exit_code |-> 1, output |-> <<69, 114, 114>>],
      [raised |-> FALSE, exit_code |-> 2, output |-> <<255>>] }

\* container.get_archive: raises, or returns a chunk iterator that yields
\* its chunks and then ends or raises
Fetches ==
    { [raised |-> TRUE,  chunks |-> <<>>, broken |-> FALSE],
      [raised |-> FALSE, chunks |-> << <<97, 98, 99>>, <<100, 101, 102>> >>, broken |-> FALSE],
      [raised |-> FALSE, chunks |-> << <<97, 98, 99>> >>, broken |-> TRUE] }

\* docker.from_env() and client.containers.list(): both return, or one of
\* them raises a docker.errors.DockerException or an exception of another
\* class (requests' ConnectionError, for one)
ConnectResults == {"ok", "DockerException", "OtherException"}

\* the file system while an artifact is written: no fault, gzip.open raises
\* (no file is created), or write raises after gzip.open created the file
FileFaults == {"none", "open", "write"}

\* the environment is consulted only as far as the code gets: exec_run is not
\* called after the ValueError of a malformed Env entry, and no file is opened
\* unless the command returned exit status 0 or get_archive returned
NoExec == [raised |-> TRUE, exit_code |-> 0, output |-> <<>>]

ExecResultsAfter(env) == IF EnvDict(env, {}).ok THEN ExecResults ELSE {NoExec}

FileFaultsAfterExec(ex) ==
    IF ~ex.raised /\ ex.exit_code = 0 THEN FileFaults ELSE {"none"}

FileFaultsAfterFetch(fetch) == IF fetch.raised THEN {"none"} ELSE FileFaults

(***************************************************************************)
(* The backup strategies.  Each returns what the call did: ret is "True",  *)
(* "False" or "raised" (exc names the exception), the file system, the log *)
(* and the exec calls after the call, the artifact path, whether the file  *)
(* was opened for writing, and the exit status when the command returned.  *)
(***************************************************************************)
Log(level, tmpl, name) == [level |-> level, tmpl |-> tmpl, name |-> name]

Outcome(ret, exc, fs, lg, xs, path, wrote, exit) ==
    [ret |-> ret, exc |-> exc, files |-> fs, logs |-> lg, execs |-> xs,
     path |-> path, wrote |-> wrote, exit |-> exit]

\* the exit_code == 0 / else branches shared by backup_mysql and backup_django
DumpResult(c, path, ex, fault, fs, lg, xs, saved, failed) ==
    IF ex.raised THEN Outcome("raised", "APIError", fs, lg, xs, path, FALSE, {})
    ELSE IF ex.exit_code = 0
    THEN IF fault = "open"
         THEN Outcome("raised", "OSError", fs, lg, xs, path, FALSE, {ex.exit_code})
         ELSE IF fault = "write"
         THEN Outcome("raised", "OSError", WriteFile(fs, path, Partial(<<>>)), lg, xs,
                      path, TRUE, {ex.exit_code})
         ELSE Outcome("True", "", WriteFile(fs, path, Gzip(ex.output)),
                      Append(lg, Log("INFO", saved, <<>>)), xs, path, TRUE, {ex.exit_code})
    ELSE IF Utf8Valid(ex.output)
         THEN Outcome("False", "", fs, Append(lg, Log("ERROR", failed, c.name)), xs,
                      path, FALSE, {ex.exit_code})
         ELSE Outcome("raised", "UnicodeDecodeError", fs, lg, xs, path, FALSE, {ex.exit_code})

backup_mysql(c, idx, dir, t, env, ex, fault, fs, lg, xs) ==
    LET path == MysqlFile(dir, c.name, t)
        env_dict == EnvDict(env, {})
        mysql_user == Get(env_dict.dict, MYSQL_USER, S_root)
        mysql_password == Get(env_dict.dict, MYSQL_PASSWORD, <<>>)
        mysql_database == Get(env_dict.dict, MYSQL_DATABASE, <<>>)
        cmd == MYSQLDUMP_U \o mysql_user \o DATABASES \o mysql_database
        environment == {<<MYSQL_PWD, mysql_password>>}
        xs1 == Append(xs, [idx |-> idx, cmd |-> cmd, environment |-> environment])
    IN  IF ~env_dict.ok
        THEN Outcome("raised", "ValueError", fs, lg, xs, path, FALSE, {})
        ELSE DumpResult(c, path, ex, fault, fs, lg, xs1, "mysql_saved", "mysql_failed")

backup_django(c, idx, dir, t, ex, fault, fs, lg, xs) ==
    LET path == DjangoFile(dir, c.name, t)
        xs1 == Append(xs, [idx |-> idx, cmd |-> DJANGO_CMD, environment |-> {}])
    IN  DumpResult(c, path, ex, fault, fs, lg, xs1, "django_saved", "django_failed")

\* every exception is caught; one raised inside the with block leaves the
\* file that gzip.open created behind
backup_volume(c, idx, vol, dir, t, fetch, fault, fs, lg, xs) ==
    LET path == VolumeFile(dir, c.name, vol, t)
        failed == Append(lg, Log("ERROR", "volume_error", c.name))
    IN  IF fetch.raised
        THEN Outcome("False", "", fs, failed, xs, path, FALSE, {})
        ELSE IF fault = "open"
        THEN Outcome("False", "", fs, failed, xs, path, FALSE, {})
        ELSE IF fault = "write" /\ fetch.chunks # <<>>
        THEN Outcome("False", "", WriteFile(fs, path, Partial(<<>>)), failed, xs, path, TRUE, {})
        ELSE IF fetch.broken
        THEN Outcome("False", "", WriteFile(fs, path, Gzip(Concat(fetch.chunks))), failed, xs,
                     path, TRUE, {})
        ELSE Outcome("True", "", WriteFile(fs, path, Gzip(Concat(fetch.chunks))),
                     Append(lg, Log("INFO", "volume_saved", <<>>)), xs, path, TRUE, {})

\* variant: any non-empty DCBAK value opts the container in
OptedIn_AnyValue(labels) == Get(labels, "DCBAK", <<>>) # <<>>

(***************************************************************************)
(* main: the decisions it takes on a container's labels.                   *)
(***************************************************************************)
\* labels.get("DCBAK", "").lower() != "true"  ->  continue
OptedIn(labels) == Lower(Get(labels, "DCBAK", <<>>)) = S_true

\* variant: the backup type is compared case-insensitively
DumpKind_AnyCase(labels) ==
    LET backup_type == Lower(Get(labels, "DCBAK-TYPE", <<>>))
    IN  IF backup_type = S_mysql THEN "mysql"
        ELSE IF backup_type = S_django THEN "django"
        ELSE "none"

\* backup_type = labels.get("DCBAK-TYPE", ""); if == "mysql" ... elif == "django"
DumpKind(labels) ==
    LET backup_type == Get(labels, "DCBAK-TYPE", <<>>)
    IN  IF backup_type = S_mysql THEN "mysql"
        ELSE IF backup_type = S_django THEN "django"
        ELSE "none"

\* if labels.get("DCBAK-VOLUME", False): the default False and "" are falsy
WantsVolume(labels) ==
    Has(labels, "DCBAK-VOLUME") /\ Get(labels, "DCBAK-VOLUME", <<>>) # <<>>

\* variant: the volume step placed before the dump step
Stages_VolumeFirst == <<"volume", "dump">>

\* the order of the two steps inside the try block of the loop body
Stages == <<"dump", "volume">>

StageAfter(s) == IF s = Stages[1] THEN Stages[2] ELSE "loop"

\* except docker.errors.DockerException: log and return; any other exception
\* of from_env or list leaves main
AfterConnect(r) ==
    IF r = "ok" THEN "loop"
    ELSE IF r = "DockerException" THEN "done"
    ELSE "raised"

\* variant: no except clause around the loop body
AfterStage_Uncaught(s, ret) == IF ret = "raised" THEN "raised" ELSE StageAfter(s)

\* a strategy returned: go on to the next step of the try block; it raised:
\* except Exception at the per-container boundary, then the next container
AfterStage(s, ret) == IF ret = "raised" THEN "loop" ELSE StageAfter(s)

\* the for statement: the position reached when the body is entered for
\* the container at index j, main returns when the list is exhausted
LoopPc(cs, j) == IF j > Len(cs) THEN "done" ELSE "loop"

\* the position after a step whose continuation is nxt
PcAfter(nxt) == IF nxt = "loop" THEN LoopPc(containers, i + 1) ELSE nxt

Event(idx, ev) == [idx |-> idx, ev |-> ev]

Call(idx, kind, arg, r) ==
    [idx |-> idx, kind |-> kind, arg |-> arg, path |-> r.path, ret |-> r.ret,
     exc |-> r.exc, wrote |-> r.wrote, exit |-> r.exit]

\* datetime.now(): local wall-clock time, which may stand still, advance or
\* step back between two readings; a reading is one of two adjacent seconds
Clock == {StartClock, StartClock + 1}

(***************************************************************************)
(* The run.                                                                *)
(***************************************************************************)
Init ==
    /\ pc = "start"
    /\ backup_dir = <<>>
    /\ backupExists \in BOOLEAN
    /\ running \in ContainerLists
    /\ containers = <<>>
    /\ conn = "no"
    /\ i = 1
    /\ files = [p \in {} |-> Gzip(<<>>)]
    /\ trace = <<>>
    /\ calls = <<>>
    /\ logs = <<>>
    /\ execs = <<>>

\* backup_dir = "/backup" if os.path.exists("/backup") else "./backup";
\* ensure_backup_dir(backup_dir): mkdir may raise, outside every try
EnsureBackupDir ==
    /\ pc = "start"
    /\ backup_dir' = IF backupExists THEN DIR_ABS ELSE DIR_REL
    /\ \E ok \in BOOLEAN : pc' = IF ok THEN "connect" ELSE "raised"
    /\ UNCHANGED <<backupExists, running, containers, conn, i, files, trace,
                   calls, logs, execs>>

\* client = docker.from_env(); containers = client.containers.list()
Connect ==
    /\ pc = "connect"
    /\ \E r \in ConnectResults :
          /\ pc' = IF AfterConnect(r) = "loop" THEN LoopPc(running, 1) ELSE AfterConnect(r)
          /\ conn' = IF r = "ok" THEN "ok" ELSE "failed"
          /\ containers' = IF r = "ok" THEN running ELSE <<>>
          /\ logs' = IF r = "DockerException"
                     THEN Append(logs, Log("ERROR", "connect_failed", <<>>))
                     ELSE logs
    /\ UNCHANGED <<backup_dir, backupExists, running, i, files, trace, calls, execs>>

\* the opt-in gate fails: continue
Skip ==
    /\ pc = "loop"
    /\ i <= Len(containers)
    /\ ~OptedIn(containers[i].labels)
    /\ trace' = Append(trace, Event(i, "labels"))
    /\ i' = i + 1
    /\ pc' = LoopPc(containers, i + 1)
    /\ UNCHANGED <<backup_dir, backupExists, running, containers, conn, files,
                   calls, logs, execs>>

\* the opt-in gate passes: logger.info("Backing up ..."), enter the try block
Begin ==
    /\ pc = "loop"
    /\ i <= Len(containers)
    /\ OptedIn(containers[i].labels)
    /\ trace' = Append(Append(trace, Event(i, "labels")), Event(i, "begin"))
    /\ logs' = Append(logs, Log("INFO", "backing_up", containers[i].name))
    /\ pc' = Stages[1]
    /\ UNCHANGED <<backup_dir, backupExists, running, containers, conn, i, files,
                   calls, execs>>

\* what main does with the outcome r of a strategy called in step s
Settle(s, kind, arg, r) ==
    /\ files' = r.files
    /\ execs' = r.execs
    /\ calls' = Append(calls, Call(i, kind, arg, r))
    /\ trace' = Append(trace, Event(i, kind))
    /\ logs' = IF r.ret = "raised"
               THEN Append(r.logs, Log("ERROR", "container_error", containers[i].name))
               ELSE r.logs
    /\ pc' = PcAfter(AfterStage(s, r.ret))
    /\ i' = IF AfterStage(s, r.ret) = "loop" THEN i + 1 ELSE i

\* backup_type == "mysql": backup_mysql(container, backup_dir)
DumpMysql ==
    /\ pc = "dump"
    /\ DumpKind(containers[i].labels) = "mysql"
    /\ \E t \in Clock, env \in Envs :
       \E ex \in ExecResultsAfter(env) :
       \E fault \in FileFaultsAfterExec(ex) :
          /\ Settle("dump", "mysql", <<>>,
                    backup_mysql(containers[i], i, backup_dir, t, env, ex, fault, files,
                                 Append(logs, Log("INFO", "mysql_banner", <<>>)), execs))
    /\ UNCHANGED <<backup_dir, backupExists, running, containers, conn>>

\* backup_type == "django": backup_django(container, backup_dir)
DumpDjango ==
    /\ pc = "dump"
    /\ DumpKind(containers[i].labels) = "django"
    /\ \E t \in Clock, ex \in ExecResults :
       \E fault \in FileFaultsAfterExec(ex) :
          /\ Settle("dump", "django", <<>>,
                    backup_django(containers[i], i, backup_dir, t, ex, fault, files,
                                  Append(logs, Log("INFO", "django_banner", <<>>)), execs))
    /\ UNCHANGED <<backup_dir, backupExists, running, containers, conn>>

\* neither branch of the if / elif matches
NoDump ==
    /\ pc = "dump"
    /\ DumpKind(containers[i].labels) = "none"
    /\ pc' = PcAfter(StageAfter("dump"))
    /\ i' = IF StageAfter("dump") = "loop" THEN i + 1 ELSE i
    /\ UNCHANGED <<backup_dir, backupExists, running, containers, conn, files,
                   trace, calls, logs, execs>>

\* labels.get("DCBAK-VOLUME", False) is truthy: backup_volume(container, vol, backup_dir)
Volume ==
    /\ pc = "volume"
    /\ WantsVolume(containers[i].labels)
    /\ LET vol == Get(containers[i].labels, "DCBAK-VOLUME", <<>>)
       IN  \E t \in Clock, fetch \in Fetches :
           \E fault \in FileFaultsAfterFetch(fetch) :
                  /\ Settle("volume", "volume", vol,
                        backup_volume(containers[i], i, vol, backup_dir, t, fetch, fault,
                                      files,
                                      Append(logs, Log("INFO", "volume_banner", <<>>)),
                                      execs))
    /\ UNCHANGED <<backup_dir, backupExists, running, containers, conn>>

\* the volume label is absent or empty
NoVolume ==
    /\ pc = "volume"
    /\ ~WantsVolume(containers[i].labels)
    /\ pc' = PcAfter(StageAfter("volume"))
    /\ i' = IF StageAfter("volume") = "loop" THEN i + 1 ELSE i
    /\ UNCHANGED <<backup_dir, backupExists, running, containers, conn, files,
                   trace, calls, logs, execs>>

Next ==
    \/ EnsureBackupDir
    \/ Connect
    \/ Skip
    \/ Begin
    \/ DumpMysql
    \/ DumpDjango
    \/ NoDump
    \/ Volume
    \/ NoVolume

Spec == Init /\ [][Next]_vars

(***************************************************************************)
(* The properties.  They read the labels directly, not through the         *)
(* operators of main.                                                      *)
(***************************************************************************)
TrueAnyCase ==
    { <<a, b, c, d>> : a \in {"t", "T"}, b \in {"r", "R"}, c \in {"u", "U"}, d \in {"e", "E"} }

LabelIsTrue(c) == \E p \in c.labels : p[1] = "DCBAK" /\ p[2] \in TrueAnyCase

TypeIs(c, v) == <<"DCBAK-TYPE", v>> \in c.labels

VolumeOf(c) == {p[2] : p \in {q \in c.labels : q[1] = "DCBAK-VOLUME" /\ q[2] # <<>>}}

\* the iteration of container k is over
Processed(k) == conn = "ok" /\ k \in 1..Len(containers) /\ (k < i \/ pc = "done")

CallsOf(k, kinds) == {n \in DOMAIN calls : calls[n].idx = k /\ calls[n].kind \in kinds}

Dumps == {"mysql", "django"}

Rank(ev) ==
    CASE ev = "labels" -> 1
      [] ev = "begin" -> 2
      [] ev \in Dumps -> 3
      [] ev = "volume" -> 4

\* C1: every strategy call returns True or False; no exception leaves a
\* strategy.
StrategiesNeverRaise == \A n \in DOMAIN calls : calls[n].ret \in {"True", "False"}

\* C2: once an opted-in container with a non-empty DCBAK-VOLUME label has
\* been processed, backup_volume was called exactly once for it with the
\* label value, whatever the dump strategy did.
VolumeAlwaysArchived ==
    \A k \in 1..Len(containers) :
        (Processed(k) /\ LabelIsTrue(containers[k]) /\ VolumeOf(containers[k]) # {})
            => Cardinality({n \in CallsOf(k, {"volume"}) :
                              calls[n].arg \in VolumeOf(containers[k])}) = 1

\* C3: no two strategy calls of a run write the same artifact path.
ArtifactPathsDistinct ==
    \A m, n \in DOMAIN calls :
        (m # n /\ calls[m].wrote /\ calls[n].wrote) => calls[m].path # calls[n].path

\* C4: main raises only before the loop (mkdir or the connection); once a container has been
\* processed, every opted-in container up to it was entered and dispatched to
\* the dump strategy its DCBAK-TYPE names, and to the volume strategy unless
\* a strategy of that same container raised, whatever earlier containers did.
PerContainerIsolation ==
    /\ pc = "raised" => (conn # "ok" /\ trace = <<>>)
    /\ \A k \in 1..Len(containers) :
          (Processed(k) /\ LabelIsTrue(containers[k])) =>
              /\ \E n \in DOMAIN trace : trace[n] = Event(k, "begin")
              /\ TypeIs(containers[k], S_mysql) => CallsOf(k, {"mysql"}) # {}
              /\ TypeIs(containers[k], S_django) => CallsOf(k, {"django"}) # {}
              /\ (/\ VolumeOf(containers[k]) # {}
                  /\ \A n \in CallsOf(k, Dumps) : calls[n].ret # "raised")
                     => CallsOf(k, {"volume"}) # {}

\* a strategy of one container raised, a later container was backed up, and
\* main returned
PerContainerIsolationWitness ==
    /\ pc = "done"
    /\ \E m, n \in DOMAIN calls :
          /\ calls[m].ret = "raised"
          /\ calls[n].idx > calls[m].idx
          /\ calls[n].ret = "True"

\* C5: a container whose DCBAK label is absent or is not "true" in some
\* letter case gets no strategy call, no exec call and no step beyond the
\* read of its labels, so no file is written for it.
OptInGate ==
    \A k \in 1..Len(containers) :
        ~LabelIsTrue(containers[k]) =>
            /\ CallsOf(k, Dumps \cup {"volume"}) = {}
            /\ \A n \in DOMAIN execs : execs[n].idx # k
            /\ \A n \in DOMAIN trace : trace[n].idx = k => trace[n].ev = "labels"
            /\ \A n \in DOMAIN logs : logs[n].name # containers[k].name

\* a container with DCBAK "false", a type and a volume was passed over while
\* another container of the run was backed up
OptInGateWitness ==
    /\ pc = "done"
    /\ \E k \in 1..Len(containers) :
          /\ <<"DCBAK", <<"f","a","l","s","e">>>> \in containers[k].labels
          /\ TypeIs(containers[k], S_django)
          /\ VolumeOf(containers[k]) # {}
    /\ \E n \in DOMAIN calls : calls[n].wrote

\* C6: after a failed connect or list, main has returned without raising, an
\* error is logged, and nothing was processed: no container step, no strategy
\* call, no exec call, no file.
ConnectFailureIsFatal ==
    conn = "failed" =>
        /\ pc = "done"
        /\ logs = <<Log("ERROR", "connect_failed", <<>>)>>
        /\ containers = <<>>
        /\ trace = <<>>
        /\ calls = <<>>
        /\ execs = <<>>
        /\ DOMAIN files = {}

\* C7: for an opted-in container at most one dump strategy is ever called;
\* backup_mysql is called only if DCBAK-TYPE is exactly "mysql" and
\* backup_django only if it is exactly "django"; once the container has been
\* processed the named strategy was called exactly once.
DumpDispatch ==
    \A k \in 1..Len(containers) :
        LabelIsTrue(containers[k]) =>
            /\ Cardinality(CallsOf(k, Dumps)) <= 1
            /\ ~TypeIs(containers[k], S_mysql) => CallsOf(k, {"mysql"}) = {}
            /\ ~TypeIs(containers[k], S_django) => CallsOf(k, {"django"}) = {}
            /\ Processed(k) =>
                  /\ TypeIs(containers[k], S_mysql) => Cardinality(CallsOf(k, {"mysql"})) = 1
                  /\ TypeIs(containers[k], S_django) => Cardinality(CallsOf(k, {"django"})) = 1

\* a container with DCBAK "TRUE" and type "mysql" got its one dump, and a
\* container with type "MySQL" was processed without one
DumpDispatchWitness ==
    /\ pc = "done"
    /\ \E k \in 1..Len(containers) :
          /\ <<"DCBAK", <<"T","R","U","E">>>> \in containers[k].labels
          /\ TypeIs(containers[k], S_mysql)
          /\ Cardinality(CallsOf(k, {"mysql"})) = 1
    /\ \E k \in 1..Len(containers) :
          /\ LabelIsTrue(containers[k])
          /\ TypeIs(containers[k], <<"M","y","S","Q","L">>)
          /\ CallsOf(k, Dumps) = {}

\* C8: a dump command that returned a non-zero exit status makes the
\* strategy return False, write no file, log an error with the container
\* name, and run the command once.
NonZeroExitReturnsFalse ==
    \A n \in DOMAIN calls :
        (calls[n].kind \in Dumps /\ calls[n].exit # {} /\ calls[n].exit # {0}) =>
            /\ calls[n].ret = "False"
            /\ ~calls[n].wrote
            /\ Cardinality({x \in DOMAIN execs : execs[x].idx = calls[n].idx}) = 1
            /\ \E x \in DOMAIN logs :
                  /\ logs[x].level = "ERROR"
                  /\ logs[x].tmpl \in {"mysql_failed", "django_failed"}
                  /\ logs[x].name = containers[calls[n].idx].name

\* C9: the steps of a run happen in list order, and inside one container in
\* the order labels, begin, dump, volume: a step of container k never follows
\* a step of a later container, nor a later step of container k.
SequentialOrder ==
    /\ \A m, n \in DOMAIN trace :
          m < n => \/ trace[m].idx < trace[n].idx
                   \/ /\ trace[m].idx = trace[n].idx
                      /\ Rank(trace[m].ev) < Rank(trace[n].ev)
    /\ \A n \in DOMAIN trace : trace[n].idx <= i

\* a container ran its dump and then its volume archive, and a second
\* container was backed up after it
SequentialOrderWitness ==
    /\ pc = "done"
    /\ \E k \in DOMAIN trace :
          /\ k + 2 <= Len(trace)
          /\ trace[k] = Event(1, "django")
          /\ trace[k + 1] = Event(1, "volume")
          /\ trace[k + 2] = Event(2, "labels")
    /\ \E n \in DOMAIN trace : trace[n].idx = 2 /\ trace[n].ev = "volume"

\* C10: no file is left at the artifact path of a strategy call that
\* returned False.
NoFileForFailedJob ==
    \A n \in DOMAIN calls : calls[n].ret = "False" => calls[n].path \notin DOMAIN files

====
